---- MODULE Spec2Model ----
(***************************************************************************)
(* State-machine model of the review-extraction pipeline of                *)
(* backend/src/scraper/googleMapsScraperSource.ts: one fetchReviews call,  *)
(* from URL validation through session creation, navigation, interstitial  *)
(* dismissal, panel opening, container resolution, the scroll / extract /  *)
(* dedupe loop and the teardown in the finally block.                      *)
(*                                                                         *)
(* The browser and the page are the environment: every awaited Playwright  *)
(* operation either resolves or rejects, and what the page shows (matches  *)
(* of a locator, the nodes of the container, the scroll offset read back)  *)
(* is chosen from the bounded sets defined below.                          *)
(*                                                                         *)
(* Spec is that call.  SpecRating is the rating recovery of the extractor *)
(* over every label, SpecClassify is classifySentiments of                 *)
(* backend/src/groq/groqClient.ts, and SpecTwoCalls is two fetchReviews    *)
(* calls interleaved on the one instance backend/src/analysis/analyzer.ts  *)
(* keeps.                                                                  *)
(***************************************************************************)
EXTENDS Integers, Sequences, FiniteSets, TLC

\* ------------------------------------------------------------------ bounds
\* most nodes the container holds when it is resolved (long lists apart)
MaxNodes == 2
\* container selectors that do not simply time out
ProbedSelectors == 2
\* number of settle waits (loop repetitions) explored; the code has no bound
MaxPasses == 1
\* largest scroll offset the container reports, in scroll steps
MaxOffset == 1
\* most query parameters of input.url
MaxParams == 2
\* largest number on a rating label, in tenths
MaxTenths == 60
\* most reviews of a short list handed to classifySentiments
MaxInput == 2
\* most entries of the array the chat-completion service answers with
MaxItems == 2
\* most text-bearing descendants of a node whose text is recovered
MaxDesc == 2

\* -------------------------------------------------------- program constants
MAX_REVIEWS == 500

\* groqClient.ts, classifySentiments
chunkSize == 20

ERR_INVALID_URL == "Invalid Google Maps place URL."
ERR_PANEL == "Could not find a Reviews button on this Google Maps page."
ERR_CONTAINER == "Could not find reviews container."

\* number of entries of candidateButtons, candidateLocators, containerSelectors
NumButtons == 8
NumPanelLocators == 7
NumContainerSelectors == 6

\* ---------------------------------------------------------------- strings
\* A DOM string is known by its content tag s, its trimmed length len and by
\* which of the extractor's patterns it matches: "time" for the elapsed-time
\* pattern ("2 months ago"), "name" for the capitalized-name pattern
\* ("John D"), "plain" for neither.
Str(s, len, kind) == [s |-> s, len |-> len, kind |-> kind]
EmptyStr == Str("", 0, "plain")
Undefined == Str("undefined", 0, "plain")

tGreat == Str("great", 40, "plain")
tAwful == Str("awful", 60, "plain")
tAgo == Str("ago", 25, "time")
tJohn == Str("john", 22, "name")
tOk == Str("ok", 5, "plain")

\* ------------------------------------------------------------------- nodes
\* One element of the container's subtree, as far as the extractor looks at
\* it.  attr: the data-review-id attribute ("absent", "empty" or "value",
\* then rid is its value); cls: the element matches the list-item /
\* review-class selector of strategy 2; unit: the unit word of the
\* aria-label of its rating indicator ("none" without indicator); hasNum and
\* tenths: the first number of that label, in tenths; desc: the trimmed
\* textContent of its span/div/p descendants in document order; direct: its
\* own direct text; total: the trimmed length of its whole textContent.
Node(attr, rid, cls, unit, hasNum, tenths, desc, direct, total) ==
  [attr |-> attr, rid |-> rid, cls |-> cls, unit |-> unit, hasNum |-> hasNum,
   tenths |-> tenths, desc |-> desc, direct |-> direct, total |-> total]

\* well-formed, identifier 1, "4.0 stars"
nA == Node("value", 1, FALSE, "star", TRUE, 40, <<tJohn, tGreat>>, EmptyStr, 62)
\* same identifier 1, other fields, "3.6 stars"
nA2 == Node("value", 1, FALSE, "star", TRUE, 36, <<tAwful>>, EmptyStr, 60)
\* well-formed, identifier 2, "3 stars"
nB == Node("value", 2, FALSE, "star", TRUE, 30, <<tAgo, tAwful>>, EmptyStr, 85)
\* no usable text
nNoText == Node("value", 3, FALSE, "star", TRUE, 50, <<tOk>>, tOk, 10)
\* no rating indicator
nNoRating == Node("value", 4, FALSE, "none", FALSE, 0, <<tGreat>>, EmptyStr, 40)
\* "10 stars"
nTen == Node("value", 5, FALSE, "star", TRUE, 100, <<tGreat>>, EmptyStr, 40)
\* data-review-id="" : the identifier is synthesized
nEmptyId == Node("empty", 0, FALSE, "star", TRUE, 50, <<tGreat>>, EmptyStr, 40)

\* no data-review-id, but review class, "4 stars" and a long span
nPlain == Node("absent", 0, TRUE, "star", TRUE, 40, <<tGreat>>, EmptyStr, 40)

SmallNodes == {nA, nA2, nB, nNoText, nNoRating, nTen, nEmptyId}

\* sequences over S of length at most n
SeqUpTo(S, n) == UNION {[1..k -> S] : k \in 0..n}

SmallSnapshots == SeqUpTo(SmallNodes, MaxNodes)

\* a long list of well-formed nodes with pairwise distinct identifiers
BulkNode(i) ==
  Node("value", 1000 + i, FALSE, "star", TRUE, 50, <<tGreat>>, EmptyStr, 40)
Bulk(n) == [i \in 1..n |-> BulkNode(i)]
BulkSnapshots == {Bulk(MAX_REVIEWS - 1), Bulk(MAX_REVIEWS + 1)}

\* containers with a node that only the fallback strategies would take
PlainSnapshots == {<<nPlain>>, <<nPlain, nA>>, <<nEmptyId, nPlain>>}

\* what the container may hold when it is resolved
Snapshots == SmallSnapshots \cup BulkSnapshots \cup PlainSnapshots

\* what the container may hold after a settle wait: the same nodes, or one
\* more node rendered at the end of the list
Rendered(dom) == {dom} \cup {Append(dom, n) : n \in SmallNodes}

\* --------------------------------------------------------- record extractor
\* el.querySelector('[role="img"][aria-label*="star"], [aria-label*="star"]')
HasStarRating(n) == n.unit = "star"

\* some span/div descendant with more than 20 characters
HasLongText(n) == \E i \in 1..Len(n.desc) : n.desc[i].len > 20

Strategy1(dom) == SelectSeq(dom, LAMBDA n : n.attr # "absent")
Strategy2(dom) ==
  SelectSeq(dom, LAMBDA n : n.cls /\ HasStarRating(n) /\ HasLongText(n))
Strategy3(dom) ==
  SelectSeq(dom, LAMBDA n : HasStarRating(n) /\ n.total > 30)

\* variant: the nodes of all three strategies together
ReviewNodes_Mixed(dom) == Strategy1(dom) \o Strategy2(dom) \o Strategy3(dom)

\* node discovery: the first strategy that finds a node
ReviewNodes(dom) ==
  IF Len(Strategy1(dom)) # 0 THEN Strategy1(dom)
  ELSE IF Len(Strategy2(dom)) # 0 THEN Strategy2(dom)
  ELSE Strategy3(dom)

\* identifiers: the attribute value, or `review-${index}-${Date.now()}`
AttrId(v) == [src |-> "attr", v |-> v, idx |-> 0, t |-> 0]
SynthId(index, t) == [src |-> "synth", v |-> 0, idx |-> index, t |-> t]
ExtractId(n, index, t) ==
  IF n.attr = "value" THEN AttrId(n.rid) ELSE SynthId(index, t)

\* variant: halves are rounded down
MathRound_HalfDown(tenths) == (tenths + 4) \div 10

\* Math.round of a non-negative number given in tenths
MathRound(tenths) == (tenths + 5) \div 10

\* rating: 0 unless an indicator labelled star / stelle carries a number
ExtractRating(n) ==
  IF n.unit \in {"star", "stelle"} /\ n.hasNum THEN MathRound(n.tenths) ELSE 0

\* variant: >= instead of >, the last of the longest strings wins
RECURSIVE LongestText_LastOnTie(_, _, _)
LongestText_LastOnTie(desc, i, best) ==
  IF i > Len(desc) THEN best
  ELSE LET c == desc[i] IN
       IF /\ c.len >= best.len
          /\ c.len > 20
          /\ c.len < 2000
          /\ c.kind = "plain"
       THEN LongestText_LastOnTie(desc, i + 1, c)
       ELSE LongestText_LastOnTie(desc, i + 1, best)

\* the loop over allTextNodes: the longest acceptable string, first on a tie
RECURSIVE LongestText(_, _, _)
LongestText(desc, i, best) ==
  IF i > Len(desc) THEN best
  ELSE LET c == desc[i] IN
       IF /\ c.len > best.len
          /\ c.len > 20
          /\ c.len < 2000
          /\ c.kind = "plain"
       THEN LongestText(desc, i + 1, c)
       ELSE LongestText(desc, i + 1, best)

ExtractText(n) ==
  LET text == LongestText(n.desc, 1, EmptyStr) IN
  IF text.len = 0 \/ text.len < 20
  THEN IF n.direct.len > 20 THEN n.direct ELSE text
  ELSE text

\* first descendant that looks like a name / like an elapsed time
FirstOfKind(desc, kind) ==
  LET hits == SelectSeq(desc, LAMBDA c : c.kind = kind) IN
  IF Len(hits) = 0 THEN Undefined ELSE hits[1]

ExtractAuthor(n) ==
  LET hits == SelectSeq(n.desc,
                LAMBDA c : c.len > 3 /\ c.len < 50 /\ c.kind = "name") IN
  IF Len(hits) = 0 THEN Undefined ELSE hits[1]

ExtractDate(n) == FirstOfKind(n.desc, "time")

\* reviewNodes.map((node, index) => ...), index counted from 0
ExtractRecord(n, index, t) ==
  [id |-> ExtractId(n, index, t),
   authorName |-> ExtractAuthor(n),
   rating |-> ExtractRating(n),
   text |-> ExtractText(n),
   date |-> ExtractDate(n)]

ExtractCandidates(dom, t) ==
  LET nodes == ReviewNodes(dom) IN
  [i \in 1..Len(nodes) |-> ExtractRecord(nodes[i], i - 1, t)]

\* ------------------------------------------------------- filter and dedupe
\* the body of `for (const r of newReviews)`: skip a candidate without text
\* or rating, push it unless reviews.find(...) meets its identifier
\* variant: the filter forgets the rating
InsertOne_TextOnly(acc, r) ==
  IF r.text.len = 0 THEN acc
  ELSE IF \E j \in 1..Len(acc) : acc[j].id = r.id THEN acc
  ELSE Append(acc, r)

\* variant: no lookup of the identifier before the push
InsertOne_NoFind(acc, r) ==
  IF r.text.len = 0 \/ r.rating = 0 THEN acc ELSE Append(acc, r)

\* variant: unshift instead of push
InsertOne_Unshift(acc, r) ==
  IF r.text.len = 0 \/ r.rating = 0 THEN acc
  ELSE IF \E j \in 1..Len(acc) : acc[j].id = r.id THEN acc
  ELSE <<r>> \o acc

InsertOne(acc, r) ==
  IF r.text.len = 0 \/ r.rating = 0 THEN acc
  ELSE IF \E j \in 1..Len(acc) : acc[j].id = r.id THEN acc
  ELSE Append(acc, r)

\* the for loop over cands[lo..hi], left to right; the range is halved so
\* that a pass over hundreds of candidates stays within the evaluation
\* stack, and the left half is finished before the right half starts
RECURSIVE InsertRange(_, _, _, _)
InsertRange(acc, cands, lo, hi) ==
  IF lo > hi THEN acc
  ELSE IF lo = hi THEN InsertOne(acc, cands[lo])
  ELSE LET mid == (lo + hi) \div 2
           left == InsertRange(acc, cands, lo, mid)
       IN IF Len(left) >= Len(acc)
          THEN InsertRange(left, cands, mid + 1, hi)
          ELSE left

InsertAll(acc, cands) == InsertRange(acc, cands, 1, Len(cands))

\* ------------------------------------------------------------------- input
\* A PlaceInput url: given (not undefined / empty), parses (new URL does not
\* throw), hostGoogle (hostname includes 'google.'), pathMaps (pathname
\* includes '/maps').
Urls ==
  [given : BOOLEAN, parses : BOOLEAN, hostGoogle : BOOLEAN,
   pathMaps : BOOLEAN]

\* variant: the path is not looked at
isValidMapsUrl_HostOnly(u) ==
  IF u.parses THEN u.hostGoogle ELSE FALSE

isValidMapsUrl(u) ==
  IF u.parses THEN u.hostGoogle /\ u.pathMaps ELSE FALSE

\* The query of input.url: its parameters in order, and whether the string
\* is spelled the way URL.toString() spells it (canon).  The query is first
\* read when the target of page.goto is computed.
Param(k, v) == [k |-> k, v |-> v]
Params ==
  {Param("hl", "en"), Param("hl", "it"), Param("hl", ""), Param("q", "x")}
Queries == [params : SeqUpTo(Params, MaxParams), canon : BOOLEAN]

\* u.searchParams.has(name)
SearchParamsHas(params, name) ==
  \E i \in 1..Len(params) : params[i].k = name

\* u.searchParams.set(name, value): the first parameter of that name takes
\* the value and the others of that name go; without one it is appended
SearchParamsSet(params, name, value) ==
  IF SearchParamsHas(params, name)
  THEN LET first == CHOOSE i \in 1..Len(params) :
                      /\ params[i].k = name
                      /\ \A j \in 1..(i - 1) : params[j].k # name
       IN SubSeq(params, 1, first - 1) \o <<Param(name, value)>> \o
          SelectSeq(SubSeq(params, first + 1, Len(params)),
                    LAMBDA q : q.k # name)
  ELSE Append(params, Param(name, value))

\* variant: hl is set whatever the input says
TargetUrl_Override(u, q) ==
  IF u.parses
  THEN [params |-> SearchParamsSet(q.params, "hl", "en"), canon |-> TRUE]
  ELSE q

\* let targetUrl = input.url; try { ... u.searchParams.set('hl', 'en');
\* targetUrl = u.toString() } catch {}
TargetUrl(u, q) ==
  IF u.parses
  THEN IF ~SearchParamsHas(q.params, "hl")
       THEN [params |-> SearchParamsSet(q.params, "hl", "en"),
             canon |-> TRUE]
       ELSE q
  ELSE q

NoNavigation == <<>>
Navigation(u, q) == [input |-> q, targetUrl |-> TargetUrl(u, q)]

\* ------------------------------------------------------- what the page shows
\* result of locator.count(): a number of matches, or a rejection
CountResults ==
  {[ok |-> FALSE, n |-> 0], [ok |-> TRUE, n |-> 0],
   [ok |-> TRUE, n |-> 1], [ok |-> TRUE, n |-> 2]}
NoMatchResult == [ok |-> TRUE, n |-> 0]

\* locator.count().catch(() => 0)
CountOrZero(c) == IF c.ok THEN c.n ELSE 0

\* result of probing one container selector: waitForSelector times out,
\* resolves to nothing, the validation throws, the element holds no
\* div[data-review-id], or it holds one.  The validation does not look at
\* the element waitForSelector returned: it asks document.querySelector for
\* the selector again.  "okOther" is the probe where that second query
\* returns another element than the visible one waited for (the page put a
\* match in front of it meanwhile, or the visible one sits in an open shadow
\* tree, which Playwright's selectors enter and querySelector does not) and
\* the other element holds a div[data-review-id].
ProbeResults == {"timeout", "null", "evalError", "noMarker", "ok", "okOther"}

\* if (hasReviews)
Validates(p) == p \in {"ok", "okOther"}

\* vectors over 1..n that are the default d but for the places a and b
Sparse(n, R, d) ==
  {[i \in 1..n |-> IF i = a THEN x ELSE IF i = b THEN y ELSE d] :
     a \in 1..n, b \in 1..n, x \in R, y \in R}

ButtonViews == Sparse(NumButtons, CountResults, NoMatchResult)
PanelViews == Sparse(NumPanelLocators, CountResults, NoMatchResult)
ContainerViews ==
  {[i \in 1..NumContainerSelectors |->
      IF i <= ProbedSelectors THEN p[i] ELSE "timeout"] :
     p \in [1..ProbedSelectors -> ProbeResults]}

\* index of the first entry of v that satisfies P, 0 when there is none
FirstIndex(v, P(_)) ==
  LET hits == {i \in 1..Len(v) : P(v[i])} IN
  IF hits = {} THEN 0 ELSE CHOOSE i \in hits : \A j \in hits : i <= j

\* variant: the last matching locator instead of the first
FirstPresent_Last(v) ==
  LET hits == {i \in 1..Len(v) : CountOrZero(v[i]) > 0} IN
  IF hits = {} THEN 0 ELSE CHOOSE i \in hits : \A j \in hits : j <= i

\* variant: count >= 0 instead of count > 0
FirstPresent_AnyCount(v) == FirstIndex(v, LAMBDA c : CountOrZero(c) >= 0)

FirstPresent(v) == FirstIndex(v, LAMBDA c : CountOrZero(c) > 0)

\* variant: the loop gives up after the first selector
FirstValid_NoContinue(v) == IF Validates(v[1]) THEN 1 ELSE 0

FirstValid(v) == FirstIndex(v, LAMBDA p : Validates(p))

\* variant: every container passes validation
HasMarker_Always(dom) == TRUE

\* a container passes validation only with a div[data-review-id] inside
HasMarker(dom) == \E i \in 1..Len(dom) : dom[i].attr # "absent"

Offsets == 0..MaxOffset

\* ------------------------------------------------------------------- state
VARIABLES
  pc,                \* the await (or exit) the fetchReviews call is at
  url,               \* input.url
  res,               \* the browser, context and page of this call
  calls,             \* how often each operation has been issued
  view,              \* what the page shows to the locators of the next stage
  stageOps,          \* the clicks and waits the last locator stage issued
  containerSelector, \* index of the accepted container selector, 0 for null
  dom,               \* the nodes of the resolved container
  scrollTop,         \* the scroll offset of the container
  reviews,           \* the accumulator
  lastHeight,
  now,               \* Date.now(), in settle waits
  result,            \* how the call completes; settled once pc = "done"
  navigation,        \* the query of input.url and the url page.goto is given
  node,              \* a review node handed to the rating recovery alone
  rating,            \* the rating recovered from that node
  classify,          \* one classifySentiments call
  session,           \* the locals browser, context, page of concurrent calls
  world,             \* every browser, context and page created so far
  snapshot,          \* a container subtree handed to the extractor alone
  passes,            \* what each extraction pass over it returned
  analysis           \* one analyzePlaceReviews call

\* the state of one fetchReviews call
call ==
  <<pc, url, res, calls, view, stageOps, containerSelector, dom, scrollTop,
    reviews, lastHeight, now, result, navigation>>

\* the state the other specifications are about
others ==
  <<node, rating, classify, session, world, snapshot, passes, analysis>>

vars == <<call, others>>

Ops ==
  {"launch", "newContext", "newPage", "goto", "dismiss", "screenshot",
   "openPanel", "resolve", "count", "extract", "scroll", "settle",
   "closePage", "closeContext", "closeBrowser"}

\* completion records
Pending == [kind |-> "none", value |-> <<>>, err |-> "", at |-> ""]
Return(v) == [kind |-> "return", value |-> v, err |-> "", at |-> ""]
Throw(e, stage) == [kind |-> "throw", value |-> <<>>, err |-> e, at |-> stage]

\* an error raised by Playwright itself (rejected operation, timeout)
ERR_PLAYWRIGHT == "playwright"

Called(op) == calls' = [calls EXCEPT ![op] = @ + 1]

\* the extractor is not run on its own
ExtractorIdle == snapshot = <<>> /\ passes = <<>>

\* no other specification is running
OthersIdle ==
  /\ node = <<>>
  /\ rating = <<>>
  /\ classify = <<>>
  /\ session = <<>>
  /\ world = <<>>
  /\ ExtractorIdle
  /\ analysis = <<>>

Init ==
  /\ pc = "start"
  /\ url \in Urls
  /\ res = [browser |-> "none", context |-> "none", page |-> "none"]
  /\ calls = [op \in Ops |-> 0]
  /\ view = <<>>
  /\ stageOps = <<>>
  /\ containerSelector = 0
  /\ dom = <<>>
  /\ scrollTop = 0
  /\ reviews = <<>>
  /\ lastHeight = 0
  /\ now = 0
  /\ result = Pending
  /\ navigation = NoNavigation
  /\ OthersIdle

\* ------------------------------------------------------------ fetchReviews
\* if (!input.url || !this.isValidMapsUrl(input.url)) throw ...
Validate ==
  /\ pc = "start"
  /\ UNCHANGED <<navigation, others>>
  /\ IF ~url.given \/ ~isValidMapsUrl(url)
     THEN /\ result' = Throw(ERR_INVALID_URL, "validate")
          /\ pc' = "done"
     ELSE /\ result' = result
          /\ pc' = "launch"
  /\ UNCHANGED <<url, res, calls, view, stageOps, containerSelector, dom,
                 scrollTop, reviews, lastHeight, now>>

\* const browser = await chromium.launch(...)      (before the try block)
Launch ==
  /\ pc = "launch"
  /\ Called("launch")
  /\ UNCHANGED <<navigation, others>>
  /\ \E ok \in BOOLEAN :
       IF ok
       THEN /\ res' = [res EXCEPT !.browser = "open"]
            /\ pc' = "newContext"
            /\ result' = result
       ELSE /\ res' = res
            /\ pc' = "done"
            /\ result' = Throw(ERR_PLAYWRIGHT, "launch")
  /\ UNCHANGED <<url, view, stageOps, containerSelector, dom, scrollTop,
                 reviews, lastHeight, now>>

\* const context = await browser.newContext(...)   (before the try block)
NewContext ==
  /\ pc = "newContext"
  /\ Called("newContext")
  /\ UNCHANGED <<navigation, others>>
  /\ \E ok \in BOOLEAN :
       IF ok
       THEN /\ res' = [res EXCEPT !.context = "open"]
            /\ pc' = "newPage"
            /\ result' = result
       ELSE /\ res' = res
            /\ pc' = "done"
            /\ result' = Throw(ERR_PLAYWRIGHT, "newContext")
  /\ UNCHANGED <<url, view, stageOps, containerSelector, dom, scrollTop,
                 reviews, lastHeight, now>>

\* variant: a navigation that failed is tried once more
Finally_RetryGoto(r) ==
  IF pc = "goto" /\ calls.goto = 0 THEN "goto"
  ELSE IF r.page # "none" THEN "closePage" ELSE "closeContext"

\* variant: the finally block closes the browser and nothing else
Finally_BrowserFirst(r) == "closeBrowser"

\* where control goes when the try block is left: page.close() only if (page)
Finally(r) == IF r.page # "none" THEN "closePage" ELSE "closeContext"

\* page = await context.newPage()
NewPage ==
  /\ pc = "newPage"
  /\ Called("newPage")
  /\ UNCHANGED <<navigation, others>>
  /\ \E ok \in BOOLEAN :
       IF ok
       THEN /\ res' = [res EXCEPT !.page = "open"]
            /\ pc' = "goto"
            /\ result' = result
       ELSE /\ res' = res
            /\ pc' = Finally(res)
            /\ result' = Throw(ERR_PLAYWRIGHT, "newPage")
  /\ UNCHANGED <<url, view, stageOps, containerSelector, dom, scrollTop,
                 reviews, lastHeight, now>>

\* let targetUrl = ...; await page.goto(targetUrl, {timeout, waitUntil:
\* 'networkidle'}); the page that loads shows some of the interstitial
\* buttons
Goto ==
  /\ pc = "goto"
  /\ Called("goto")
  /\ UNCHANGED others
  /\ \E q \in Queries : navigation' = Navigation(url, q)
  /\ \/ /\ view' \in ButtonViews
        /\ pc' = "dismiss"
        /\ result' = result
     \/ /\ view' = view
        /\ pc' = Finally(res)
        /\ result' = Throw(ERR_PLAYWRIGHT, "goto")
  /\ UNCHANGED <<url, stageOps, res, containerSelector, dom, scrollTop,
                 reviews, lastHeight, now>>

\* one entry of the log of a locator stage: a count() probe of the i-th
\* locator, a click on its first match, a waitForTimeout, a screenshot; ok
\* tells whether the operation resolved
Count(i) == [op |-> "count", i |-> i, ok |-> TRUE]
Click(i, ok) == [op |-> "click", i |-> i, ok |-> ok]
Wait(ok) == [op |-> "wait", i |-> 0, ok |-> ok]
Shot(ok) == [op |-> "screenshot", i |-> 0, ok |-> ok]

\* the count() probes of the locators 1..n, in list order
Probes(n) == [i \in 1..n |-> Count(i)]

\* a failure caught by an empty catch: the completion stays what it was
\* variant: the failure is thrown on
Swallow_Rethrow(r, ok) ==
  IF ok THEN r ELSE Throw(ERR_PLAYWRIGHT, "bestEffort")

Swallow(r, ok) == r

\* variant: no break after the settle wait, the later buttons are probed too
DismissOps_NoBreak(v, clickOk, waitOk) ==
  LET k == FirstPresent(v) IN
  IF k = 0 THEN Probes(Len(v))
  ELSE Probes(k) \o <<Click(k, clickOk), Wait(waitOk)>> \o
       [i \in 1..(Len(v) - k) |-> Count(k + i)]

\* what the for loop of dismissInterstitals issues: count() of each button
\* in turn up to the first that is present, a click on it, the settle wait
\* (also after a rejected click), break
DismissOps(v, clickOk, waitOk) ==
  LET k == FirstPresent(v) IN
  IF k = 0 THEN Probes(Len(v))
  ELSE Probes(k) \o <<Click(k, clickOk), Wait(waitOk)>>

\* dismissInterstitals: a rejected count is 0, a rejected click is swallowed
\* by its catch and a rejected wait by the outer try
DismissInterstitals ==
  /\ pc = "dismiss"
  /\ Called("dismiss")
  /\ UNCHANGED others
  /\ \E clickOk \in BOOLEAN, waitOk \in BOOLEAN :
       /\ FirstPresent(view) = 0 => (clickOk /\ waitOk)
       /\ stageOps' = DismissOps(view, clickOk, waitOk)
       /\ result' = Swallow(result, clickOk /\ waitOk)
  /\ pc' = IF result'.kind = "throw" THEN Finally(res) ELSE "screenshot1"
  /\ view' = <<>>
  /\ navigation' = NoNavigation
  /\ UNCHANGED <<url, res, containerSelector, dom, scrollTop, reviews,
                 lastHeight, now>>

\* try { await page.screenshot(...) } catch {}; what the page shows to the
\* locators of the stage that follows is fixed here
Screenshot ==
  /\ pc \in {"screenshot1", "screenshot2"}
  /\ Called("screenshot")
  /\ UNCHANGED <<navigation, others>>
  /\ \E ok \in BOOLEAN :
       /\ stageOps' = Append(stageOps, Shot(ok))
       /\ result' = Swallow(result, ok)
  /\ IF result'.kind = "throw"
     THEN /\ pc' = Finally(res)
          /\ view' = view
     ELSE IF pc = "screenshot1"
     THEN /\ pc' = "openPanel"
          /\ view' \in PanelViews
     ELSE /\ pc' = "resolve"
          /\ view' \in ContainerViews
  /\ UNCHANGED <<url, res, containerSelector, dom, scrollTop, reviews,
                 lastHeight, now>>

\* what the for loop of openReviewsPanel issues: count() of each locator in
\* turn up to the first that matches, a click on its first match and, once
\* the click has resolved, the wait
PanelOps(v, clickOk, waitOk) ==
  LET k == FirstPresent(v) IN
  IF k = 0 THEN Probes(Len(v))
  ELSE IF clickOk THEN Probes(k) \o <<Click(k, TRUE), Wait(waitOk)>>
  ELSE Probes(k) \o <<Click(k, FALSE)>>

\* openReviewsPanel: click the first locator whose count is positive, wait
\* and return; throw when no locator matches.  A rejected count is 0; a
\* rejected click or wait rejects the call.
OpenReviewsPanel ==
  /\ pc = "openPanel"
  /\ Called("openPanel")
  /\ UNCHANGED <<navigation, others>>
  /\ \E clickOk \in BOOLEAN, waitOk \in BOOLEAN :
       /\ FirstPresent(view) = 0 => (clickOk /\ waitOk)
       /\ ~clickOk => waitOk
       /\ stageOps' = PanelOps(view, clickOk, waitOk)
       /\ IF FirstPresent(view) = 0
          THEN /\ result' = Throw(ERR_PANEL, "openPanel")
               /\ pc' = Finally(res)
               /\ view' = view
          ELSE IF clickOk /\ waitOk
          THEN /\ result' = result
               /\ pc' = "screenshot2"
               /\ view' = <<>>
          ELSE /\ result' = Throw(ERR_PLAYWRIGHT, "openPanel")
               /\ pc' = Finally(res)
               /\ view' = view
  /\ UNCHANGED <<url, res, containerSelector, dom, scrollTop, reviews,
                 lastHeight, now>>

\* scrapeReviews, container resolution: the first selector that resolves to
\* a visible element holding a div[data-review-id]; every other outcome of a
\* probe moves on to the next selector.  From here on the page is known by
\* the nodes of the accepted container.
ResolveContainer ==
  /\ pc = "resolve"
  /\ Called("resolve")
  /\ UNCHANGED <<navigation, others>>
  /\ IF FirstValid(view) = 0
     THEN /\ result' = Throw(ERR_CONTAINER, "resolve")
          /\ pc' = Finally(res)
          /\ UNCHANGED <<containerSelector, dom, view, stageOps>>
     ELSE /\ result' = result
          /\ pc' = "count"
          /\ containerSelector' = FirstValid(view)
          /\ dom' \in {s \in Snapshots : HasMarker(s)}
          /\ view' = <<>>
          /\ stageOps' = <<>>
  /\ UNCHANGED <<url, res, scrollTop, reviews, lastHeight, now>>

\* scrapeReviews ends, by return or by throw, with completion r; its locals
\* containerSelector and lastHeight end with it
LeaveScrape(r) ==
  /\ result' = r
  /\ pc' = Finally(res)
  /\ containerSelector' = 0
  /\ lastHeight' = 0

\* const initialReviewCount = await page.evaluate(...)   (logged only)
CountInitial ==
  /\ pc = "count"
  /\ Called("count")
  /\ UNCHANGED <<navigation, others>>
  /\ \E ok \in BOOLEAN :
       IF ok
       THEN /\ pc' = "extract"
            /\ UNCHANGED <<result, containerSelector, lastHeight>>
       ELSE LeaveScrape(Throw(ERR_PLAYWRIGHT, "count"))
  /\ UNCHANGED <<url, res, view, stageOps, dom, scrollTop, reviews, now>>

\* one pass: page.evaluate(extractor), the filter / dedupe loop and
\* `if (reviews.length >= MAX_REVIEWS) break`
Extract ==
  /\ pc = "extract"
  /\ Called("extract")
  /\ UNCHANGED <<navigation, others>>
  /\ \E ok \in BOOLEAN :
       IF ok
       THEN /\ reviews' = InsertAll(reviews, ExtractCandidates(dom, now))
            /\ IF Len(reviews') >= MAX_REVIEWS
               THEN LeaveScrape(Return(reviews'))
               ELSE /\ pc' = "scroll"
                    /\ UNCHANGED <<result, containerSelector, lastHeight>>
       ELSE /\ reviews' = reviews
            /\ LeaveScrape(Throw(ERR_PLAYWRIGHT, "extract"))
  /\ UNCHANGED <<url, res, view, stageOps, dom, scrollTop, now>>

\* variant: the offset is compared with the initial offset
Stalled_VsInitial(currentHeight, last) == currentHeight = 0

\* variant: the stall check never breaks
Stalled_Never(currentHeight, last) == FALSE

\* if (currentHeight === lastHeight) break
Stalled(currentHeight, last) == currentHeight = last

\* scrollBy(0, 1000), read scrollTop back, stall check; after MaxPasses
\* settle waits the list no longer moves
Scroll ==
  /\ pc = "scroll"
  /\ Called("scroll")
  /\ UNCHANGED <<navigation, others>>
  /\ \/ \E off \in Offsets :
          /\ off = scrollTop \/ calls.settle < MaxPasses
          /\ scrollTop' = off
          /\ IF Stalled(off, lastHeight)
             THEN LeaveScrape(Return(reviews))
             ELSE /\ pc' = "settle"
                  /\ lastHeight' = off
                  /\ UNCHANGED <<result, containerSelector>>
     \/ /\ LeaveScrape(Throw(ERR_PLAYWRIGHT, "scroll"))
        /\ scrollTop' = scrollTop
  /\ UNCHANGED <<url, res, view, stageOps, dom, reviews, now>>

\* await page.waitForTimeout(2_000), then `while (reviews.length <
\* MAX_REVIEWS)`; the list may have rendered another node meanwhile
Settle ==
  /\ pc = "settle"
  /\ Called("settle")
  /\ UNCHANGED <<navigation, others>>
  /\ \/ /\ dom' \in Rendered(dom)
        /\ now' = now + 1
        /\ IF Len(reviews) < MAX_REVIEWS
           THEN /\ pc' = "extract"
                /\ UNCHANGED <<result, containerSelector, lastHeight>>
           ELSE LeaveScrape(Return(reviews))
     \/ /\ LeaveScrape(Throw(ERR_PLAYWRIGHT, "settle"))
        /\ UNCHANGED <<dom, now>>
  /\ UNCHANGED <<url, res, view, stageOps, scrollTop, reviews>>

\* ---------------------------------------------------------------- teardown
\* variant: no catch, a rejected close rejects the call
AfterClose_NoCatch(r, ok) ==
  IF ok THEN [result |-> r, continue |-> TRUE]
  ELSE [result |-> Throw(ERR_PLAYWRIGHT, "close"), continue |-> FALSE]

\* x.close().catch(() => {}): a rejection changes neither the completion of
\* the call nor what runs next
AfterClose(r, ok) == [result |-> r, continue |-> TRUE]

CloseState(ok) == IF ok THEN "closed" ELSE "closeFailed"

\* if (page) await page.close().catch(() => {}); what the page showed is
\* not followed any further
ClosePage ==
  /\ pc = "closePage"
  /\ Called("closePage")
  /\ UNCHANGED others
  /\ \E ok \in BOOLEAN :
       /\ res' = [res EXCEPT !.page = CloseState(ok)]
       /\ result' = AfterClose(result, ok).result
       /\ pc' = IF AfterClose(result, ok).continue
                THEN "closeContext" ELSE "done"
  /\ view' = <<>>
  /\ stageOps' = <<>>
  /\ dom' = <<>>
  /\ scrollTop' = 0
  /\ navigation' = NoNavigation
  /\ UNCHANGED <<url, containerSelector, reviews, lastHeight, now>>

\* await context.close().catch(() => {})
CloseContext ==
  /\ pc = "closeContext"
  /\ Called("closeContext")
  /\ UNCHANGED <<navigation, others>>
  /\ \E ok \in BOOLEAN :
       /\ res' = [res EXCEPT !.context = CloseState(ok)]
       /\ result' = AfterClose(result, ok).result
       /\ pc' = IF AfterClose(result, ok).continue
                THEN "closeBrowser" ELSE "done"
  /\ UNCHANGED <<url, view, stageOps, containerSelector, dom, scrollTop,
                 reviews, lastHeight, now>>

\* await browser.close().catch(() => {})
CloseBrowser ==
  /\ pc = "closeBrowser"
  /\ Called("closeBrowser")
  /\ UNCHANGED <<navigation, others>>
  /\ \E ok \in BOOLEAN :
       /\ res' = [res EXCEPT !.browser = CloseState(ok)]
       /\ result' = AfterClose(result, ok).result
       /\ pc' = "done"
  /\ UNCHANGED <<url, view, stageOps, containerSelector, dom, scrollTop,
                 reviews, lastHeight, now>>

Next ==
  \/ Validate
  \/ Launch
  \/ NewContext
  \/ NewPage
  \/ Goto
  \/ DismissInterstitals
  \/ Screenshot
  \/ OpenReviewsPanel
  \/ ResolveContainer
  \/ CountInitial
  \/ Extract
  \/ Scroll
  \/ Settle
  \/ ClosePage
  \/ CloseContext
  \/ CloseBrowser

Spec == Init /\ [][Next]_vars

\* no fetchReviews call is running
CallIdle ==
  /\ pc = "idle"
  /\ url = [given |-> FALSE, parses |-> FALSE, hostGoogle |-> FALSE,
            pathMaps |-> FALSE]
  /\ res = [browser |-> "none", context |-> "none", page |-> "none"]
  /\ calls = [op \in Ops |-> 0]
  /\ view = <<>>
  /\ stageOps = <<>>
  /\ containerSelector = 0
  /\ dom = <<>>
  /\ scrollTop = 0
  /\ reviews = <<>>
  /\ lastHeight = 0
  /\ now = 0
  /\ result = Pending
  /\ navigation = NoNavigation

\* --------------------------------------------------- rating recovery alone
\* review nodes with every rating label up to MaxTenths: no indicator, an
\* indicator labelled star or stelle without a number, or with the number
\* t / 10
RatingNodes ==
  {Node("value", 1, FALSE, "none", FALSE, 0, <<tGreat>>, EmptyStr, 40)} \cup
  {Node("value", 1, FALSE, unit, FALSE, 0, <<tGreat>>, EmptyStr, 40) :
     unit \in {"star", "stelle"}} \cup
  {Node("value", 1, FALSE, unit, TRUE, t, <<tGreat>>, EmptyStr, 40) :
     unit \in {"star", "stelle"}, t \in 0..MaxTenths}

InitRating ==
  /\ CallIdle
  /\ node \in RatingNodes
  /\ rating = <<>>
  /\ classify = <<>>
  /\ session = <<>>
  /\ world = <<>>
  /\ ExtractorIdle
  /\ analysis = <<>>

\* let rating = 0; const ratingNode = ...; if (ratingNode) { ... }
RecoverRating ==
  /\ rating = <<>>
  /\ rating' = <<ExtractRating(node)>>
  /\ UNCHANGED <<call, node, classify, session, world, snapshot, passes,
                 analysis>>

NextRating == RecoverRating

SpecRating == InitRating /\ [][NextRating]_vars

\* ------------------------------------------------------ the extractor alone
\* The function given to page.evaluate, run on a container subtree that does
\* not change, once and then once more.  Date.now() is later in the second
\* pass: the settle wait lies between two passes.

\* strings at the edges of the length window and two of one length
tEdge20 == Str("edge20", 20, "plain")
tEdge21 == Str("edge21", 21, "plain")
tFine == Str("fine", 40, "plain")
tEdge1999 == Str("edge1999", 1999, "plain")
tEdge2000 == Str("edge2000", 2000, "plain")
tDirect == Str("direct", 25, "plain")

TextStrings ==
  {tOk, tEdge20, tEdge21, tGreat, tFine, tEdge1999, tEdge2000, tAgo, tJohn}

\* nodes for the text recovery: "5 stars", every list of descendants, and a
\* direct text that is empty, short or long enough
TextNodes ==
  {Node("value", 1, FALSE, "star", TRUE, 50, desc, direct, 40) :
     desc \in SeqUpTo(TextStrings, MaxDesc),
     direct \in {EmptyStr, tOk, tDirect}}

\* nodes for the discovery: with or without data-review-id, list-item or
\* review class, rating indicator, and a long span, short spans that add up
\* to more than 30 characters, or little text
DiscoveryNodes ==
  {Node(attr, 7, cls, unit, unit = "star", 50, text.desc, EmptyStr,
        text.total) :
     attr \in {"value", "absent"}, cls \in BOOLEAN,
     unit \in {"star", "none"},
     text \in {[desc |-> <<tGreat>>, total |-> 40],
               [desc |-> <<tOk, tOk>>, total |-> 40],
               [desc |-> <<tOk>>, total |-> 5]}}

ExtractSnapshots ==
  {<<n>> : n \in TextNodes} \cup SeqUpTo(DiscoveryNodes, MaxNodes)

\* what one pass returns, with the nodes its discovery settled on
Pass(tree, t) ==
  [nodes |-> ReviewNodes(tree), candidates |-> ExtractCandidates(tree, t)]

InitExtract ==
  /\ CallIdle
  /\ node = <<>>
  /\ rating = <<>>
  /\ classify = <<>>
  /\ session = <<>>
  /\ world = <<>>
  /\ snapshot \in ExtractSnapshots
  /\ passes = <<>>
  /\ analysis = <<>>

\* const newReviews = await page.evaluate(...), at the time Len(passes)
ExtractPass ==
  /\ Len(passes) < 2
  /\ passes' = Append(passes, Pass(snapshot, Len(passes)))
  /\ UNCHANGED <<call, node, rating, classify, session, world, snapshot,
                 analysis>>

NextExtract == ExtractPass

SpecExtract == InitExtract /\ [][NextExtract]_vars

\* ------------------------------------------------------ classifySentiments
\* groq/groqClient.ts.  A review is known by its place in the input list.
Sentiments == {"positive", "negative", "neutral"}

ReviewList(n) == [i \in 1..n |-> i]

\* short lists, and one list that needs a second chunk
ClassifyInputs ==
  {ReviewList(n) : n \in 0..MaxInput} \cup {ReviewList(chunkSize + 1)}

\* for (let i = 0; i < reviews.length; i += chunkSize)
\*   chunks.push(reviews.slice(i, i + chunkSize))
NumChunks(list) == (Len(list) + chunkSize - 1) \div chunkSize
Chunk(list, c) ==
  LET from == (c - 1) * chunkSize + 1
      to == IF c * chunkSize < Len(list) THEN c * chunkSize ELSE Len(list)
  IN SubSeq(list, from, to)

\* one entry of the answer: an index (0 and MaxInput + 1 point outside a
\* short chunk) and a sentiment word, one of the three or another word
Item(index, sentiment) == [index |-> index, sentiment |-> sentiment]
Items ==
  {Item(i, w) : i \in 0..(MaxInput + 1), w \in {"positive", "mixed"}}

\* what createChatCompletion and JSON.parse make of one request: the request
\* is rejected (HTTP error, empty content, no key); the text does not parse;
\* it parses to something for...of cannot iterate; it parses to an array
Responses ==
  {[kind |-> k, items |-> <<>>] : k \in {"rejected", "unparsable", "notArray"}}
    \cup {[kind |-> "array", items |-> a] : a \in SeqUpTo(Items, MaxItems)}

\* parsed: the array, or the neutral fallback of the catch
Parsed(chunk, resp) ==
  IF resp.kind = "unparsable"
  THEN [idx \in 1..Len(chunk) |-> Item(idx, "neutral")]
  ELSE resp.items

\* for (const item of parsed): chunk[item.index - 1] is pushed, when there is
\* one, with the sentiment, neutral for an unknown word
RECURSIVE PushItems(_, _, _, _)
PushItems(results, chunk, parsed, i) ==
  IF i > Len(parsed) THEN results
  ELSE LET item == parsed[i]
           sentiment == IF item.sentiment \in Sentiments
                        THEN item.sentiment ELSE "neutral"
       IN IF item.index >= 1 /\ item.index <= Len(chunk)
          THEN PushItems(
                 Append(results, [review |-> chunk[item.index],
                                  sentiment |-> sentiment]),
                 chunk, parsed, i + 1)
          ELSE PushItems(results, chunk, parsed, i + 1)

InitClassify ==
  /\ CallIdle
  /\ node = <<>>
  /\ rating = <<>>
  /\ \E list \in ClassifyInputs :
       classify = [reviews |-> list, next |-> 1, results |-> <<>>,
                   outcome |-> "pending"]
  /\ session = <<>>
  /\ world = <<>>
  /\ ExtractorIdle
  /\ analysis = <<>>

\* one turn of `for (const chunk of chunks)`
ClassifyChunk ==
  /\ classify.outcome = "pending"
  /\ classify.next <= NumChunks(classify.reviews)
  /\ \E resp \in Responses :
       LET chunk == Chunk(classify.reviews, classify.next) IN
       IF resp.kind \in {"rejected", "notArray"}
       THEN classify' = [classify EXCEPT !.outcome = "throw"]
       ELSE classify' =
              [classify EXCEPT
                 !.results = PushItems(@, chunk, Parsed(chunk, resp), 1),
                 !.next = @ + 1]
  /\ UNCHANGED <<call, node, rating, session, world, snapshot, passes,
                 analysis>>

\* if (reviews.length === 0) return []; ... return results
ClassifyReturn ==
  /\ classify.outcome = "pending"
  /\ classify.next > NumChunks(classify.reviews)
  /\ classify' = [classify EXCEPT !.outcome = "return"]
  /\ UNCHANGED <<call, node, rating, session, world, snapshot, passes,
                 analysis>>

NextClassify == ClassifyChunk \/ ClassifyReturn

SpecClassify == InitClassify /\ [][NextClassify]_vars

\* ------------------------------------------- two concurrent fetchReviews
\* analyzer.ts keeps one GoogleMapsScraperSource for all requests, so two
\* fetchReviews calls may be under way on it at once, interleaved at their
\* awaits.  The instance has no field but the readonly mode; browser,
\* context and page are locals of each call.  Here the session is followed
\* and the stages between newPage and the finally block are one step.
Callers == {"a", "b"}

\* a browser, context or page: who created it, whether it is open, and
\* which calls have operated on it
Handle(kind, owner) ==
  [kind |-> kind, owner |-> owner, state |-> "open", users |-> {}]

\* the locals of a call; 0 for a local not yet assigned (page: null)
NoSession == [pc |-> "launch", browser |-> 0, context |-> 0, page |-> 0]

\* variant: the browser is kept in a field of the shared instance, which the
\* later launch overwrites
BrowserOf_Field(c) ==
  LET made == {h \in 1..Len(world) : world[h].kind = "browser"} IN
  CHOOSE h \in made : \A g \in made : g <= h

\* the browser, context and page a call refers to: its own locals
BrowserOf(c) == session[c].browser
ContextOf(c) == session[c].context
PageOf(c) == session[c].page

\* an operation of call c on handle h / the close of h by c
Use(w, h, c) == [w EXCEPT ![h].users = @ \cup {c}]
Close(w, h, c) == [w EXCEPT ![h].users = @ \cup {c}, ![h].state = "closed"]

InitTwoCalls ==
  /\ CallIdle
  /\ node = <<>>
  /\ rating = <<>>
  /\ classify = <<>>
  /\ session = [c \in Callers |-> NoSession]
  /\ world = <<>>
  /\ ExtractorIdle
  /\ analysis = <<>>

\* const browser = await chromium.launch(...)
CallLaunch(c) ==
  /\ session[c].pc = "launch"
  /\ \/ /\ world' = Append(world, Handle("browser", c))
        /\ session' = [session EXCEPT ![c].browser = Len(world) + 1,
                                       ![c].pc = "newContext"]
     \/ /\ world' = world
        /\ session' = [session EXCEPT ![c].pc = "done"]
  /\ UNCHANGED <<call, node, rating, classify, snapshot, passes,
                 analysis>>

\* const context = await browser.newContext(...)
CallNewContext(c) ==
  /\ session[c].pc = "newContext"
  /\ \/ /\ world' = Append(Use(world, BrowserOf(c), c), Handle("context", c))
        /\ session' = [session EXCEPT ![c].context = Len(world) + 1,
                                       ![c].pc = "newPage"]
     \/ /\ world' = Use(world, BrowserOf(c), c)
        /\ session' = [session EXCEPT ![c].pc = "done"]
  /\ UNCHANGED <<call, node, rating, classify, snapshot, passes,
                 analysis>>

\* page = await context.newPage()
CallNewPage(c) ==
  /\ session[c].pc = "newPage"
  /\ \/ /\ world' = Append(Use(world, ContextOf(c), c), Handle("page", c))
        /\ session' = [session EXCEPT ![c].page = Len(world) + 1,
                                       ![c].pc = "body"]
     \/ /\ world' = Use(world, ContextOf(c), c)
        /\ session' = [session EXCEPT ![c].pc = "closeContext"]
  /\ UNCHANGED <<call, node, rating, classify, snapshot, passes,
                 analysis>>

\* page.goto ... this.scrapeReviews(page): every operation goes to page
CallBody(c) ==
  /\ session[c].pc = "body"
  /\ world' = Use(world, PageOf(c), c)
  /\ session' = [session EXCEPT ![c].pc = "closePage"]
  /\ UNCHANGED <<call, node, rating, classify, snapshot, passes,
                 analysis>>

\* if (page) await page.close().catch(() => {})
CallClosePage(c) ==
  /\ session[c].pc = "closePage"
  /\ world' = Close(world, PageOf(c), c)
  /\ session' = [session EXCEPT ![c].pc = "closeContext"]
  /\ UNCHANGED <<call, node, rating, classify, snapshot, passes,
                 analysis>>

\* await context.close().catch(() => {})
CallCloseContext(c) ==
  /\ session[c].pc = "closeContext"
  /\ world' = Close(world, ContextOf(c), c)
  /\ session' = [session EXCEPT ![c].pc = "closeBrowser"]
  /\ UNCHANGED <<call, node, rating, classify, snapshot, passes,
                 analysis>>

\* await browser.close().catch(() => {})
CallCloseBrowser(c) ==
  /\ session[c].pc = "closeBrowser"
  /\ world' = Close(world, BrowserOf(c), c)
  /\ session' = [session EXCEPT ![c].pc = "done"]
  /\ UNCHANGED <<call, node, rating, classify, snapshot, passes,
                 analysis>>

NextTwoCalls ==
  \E c \in Callers :
    \/ CallLaunch(c)
    \/ CallNewContext(c)
    \/ CallNewPage(c)
    \/ CallBody(c)
    \/ CallClosePage(c)
    \/ CallCloseContext(c)
    \/ CallCloseBrowser(c)

SpecTwoCalls == InitTwoCalls /\ [][NextTwoCalls]_vars

\* ------------------------------------------------------ analyzePlaceReviews
\* One analyzePlaceReviews call in scraper mode.  Of a review only the
\* rating is kept here; classifySentiments runs on as many reviews as
\* fetchReviews returned.

\* the ratings of the records fetchReviews lets through its filter
FetchedRatings == {ExtractRating(n) : n \in SmallNodes} \ {0}

\* the lists fetchReviews may return
FetchedLists == SeqUpTo(FetchedRatings, MaxInput)

\* how many entries of the list satisfy P
CountOf(list, P(_)) == Cardinality({i \in 1..Len(list) : P(list[i])})

\* hist = {1: 0, ..., 5: 0}; a rating outside 1..5 is not counted
buildRatingsHistogram(list) ==
  [k \in 1..5 |-> CountOf(list, LAMBDA r : MathRound(10 * r) = k)]

\* counts = {positive: 0, negative: 0, neutral: 0}; counts[s] += 1
buildSentimentCounts(items) ==
  [w \in Sentiments |-> CountOf(items, LAMBDA item : item.sentiment = w)]

NoSummary == <<>>
EmptySummary ==
  [totalReviews |-> 0,
   ratingsHistogram |-> [k \in 1..5 |-> 0],
   sentimentCounts |-> [w \in Sentiments |-> 0],
   notes |-> "No reviews found."]
Summary(list, items) ==
  [totalReviews |-> Len(list),
   ratingsHistogram |-> buildRatingsHistogram(list),
   sentimentCounts |-> buildSentimentCounts(items),
   notes |-> "undefined"]

ClassifyNotCalled ==
  [reviews |-> <<>>, next |-> 1, results |-> <<>>, outcome |-> "notCalled"]

InitAnalyze ==
  /\ CallIdle
  /\ node = <<>>
  /\ rating = <<>>
  /\ classify = ClassifyNotCalled
  /\ session = <<>>
  /\ world = <<>>
  /\ ExtractorIdle
  /\ analysis = [pc |-> "fetch", reviews |-> <<>>, outcome |-> "pending",
                 summary |-> NoSummary]

\* const reviews = await source.fetchReviews(input);
\* if (!reviews.length) return {..., summary: {totalReviews: 0, ...}}
AnalyzeFetch ==
  /\ analysis.pc = "fetch"
  /\ \/ /\ analysis' = [analysis EXCEPT !.pc = "done", !.outcome = "throw"]
        /\ classify' = classify
     \/ \E list \in FetchedLists :
          IF Len(list) = 0
          THEN /\ analysis' = [analysis EXCEPT !.pc = "done",
                                               !.outcome = "return",
                                               !.summary = EmptySummary]
               /\ classify' = classify
          ELSE /\ analysis' = [analysis EXCEPT !.pc = "classify",
                                               !.reviews = list]
               /\ classify' = [reviews |-> ReviewList(Len(list)),
                               next |-> 1, results |-> <<>>,
                               outcome |-> "pending"]
  /\ UNCHANGED <<call, node, rating, session, world, snapshot, passes>>

\* classifySentiments rejected: analyzePlaceReviews rejects
AnalyzeFail ==
  /\ analysis.pc = "classify"
  /\ classify.outcome = "throw"
  /\ analysis' = [analysis EXCEPT !.pc = "done", !.outcome = "throw"]
  /\ UNCHANGED <<call, node, rating, classify, session, world, snapshot,
                 passes>>

\* detectRecurringIssues, the histogram, the counts and the summary
AnalyzeSummary ==
  /\ analysis.pc = "classify"
  /\ classify.outcome = "return"
  /\ \E ok \in BOOLEAN :
       IF ok
       THEN analysis' =
              [analysis EXCEPT
                 !.pc = "done",
                 !.outcome = "return",
                 !.summary = Summary(analysis.reviews, classify.results)]
       ELSE analysis' = [analysis EXCEPT !.pc = "done", !.outcome = "throw"]
  /\ UNCHANGED <<call, node, rating, classify, session, world, snapshot,
                 passes>>

NextAnalyze ==
  \/ AnalyzeFetch
  \/ ClassifyChunk
  \/ ClassifyReturn
  \/ AnalyzeFail
  \/ AnalyzeSummary

SpecAnalyze == InitAnalyze /\ [][NextAnalyze]_vars

\* ------------------------------------- the scroll loop on a list that ends
\* The loop of scrapeReviews from the moment the container is resolved, on a
\* page whose list only moves down and has an end: every offset read back
\* is at least the one before it and at most MaxOffset.  Each awaited
\* operation resolves or rejects, so the call always takes its next step.

\* variant: the list may also move back up
NonDecreasing_Any(off, top) == TRUE

\* what such a page reports after scrollBy(0, 1000)
NonDecreasing(off, top) == off >= top

InitLoop ==
  /\ pc = "count"
  /\ url = [given |-> TRUE, parses |-> TRUE, hostGoogle |-> TRUE,
            pathMaps |-> TRUE]
  /\ res = [browser |-> "open", context |-> "open", page |-> "open"]
  /\ calls = [op \in Ops |->
               IF op \in {"launch", "newContext", "newPage", "goto",
                          "dismiss", "openPanel", "resolve"} THEN 1
               ELSE IF op = "screenshot" THEN 2
               ELSE 0]
  /\ view = <<>>
  /\ stageOps = <<>>
  /\ containerSelector \in 1..ProbedSelectors
  /\ dom \in {s \in Snapshots : HasMarker(s)}
  /\ scrollTop = 0
  /\ reviews = <<>>
  /\ lastHeight = 0
  /\ now = 0
  /\ result = Pending
  /\ navigation = NoNavigation
  /\ OthersIdle

\* scrollBy(0, 1000), read scrollTop back, stall check
ScrollDown ==
  /\ pc = "scroll"
  /\ Called("scroll")
  /\ UNCHANGED <<navigation, others>>
  /\ \/ \E off \in Offsets :
          /\ NonDecreasing(off, scrollTop)
          /\ scrollTop' = off
          /\ IF Stalled(off, lastHeight)
             THEN LeaveScrape(Return(reviews))
             ELSE /\ pc' = "settle"
                  /\ lastHeight' = off
                  /\ UNCHANGED <<result, containerSelector>>
     \/ /\ LeaveScrape(Throw(ERR_PLAYWRIGHT, "scroll"))
        /\ scrollTop' = scrollTop
  /\ UNCHANGED <<url, res, view, stageOps, dom, reviews, now>>

NextLoop ==
  \/ CountInitial
  \/ Extract
  \/ ScrollDown
  \/ Settle
  \/ ClosePage
  \/ CloseContext
  \/ CloseBrowser

SpecLoop == InitLoop /\ [][NextLoop]_vars /\ WF_vars(NextLoop)

\* =================================================================== claims
Returned == result.kind = "return"
InLoop == pc \in {"extract", "scroll", "settle"}
Qualifies(r) == r.text.len > 0 /\ r.rating # 0

\* C1: the list fetchReviews returns never holds more than MAX_REVIEWS
\* records, also when one pass yields more new candidates than there is room
\* for.
C1_AtMostMaxReviews ==
  (pc = "done" /\ Returned) => Len(result.value) <= MAX_REVIEWS

\* C2: when fetchReviews has settled after launching the browser, no
\* resource it opened (page, context, browser) is left without a close call.
C2_NothingLeftOpen ==
  pc = "done" =>
    /\ res.browser # "open"
    /\ res.context # "open"
    /\ res.page # "open"

\* C3: no record of the accumulator, and no record of the returned list, has
\* an empty text or the rating 0.
C3_NoEmptyTextNoZeroRating ==
  /\ \A i \in 1..Len(reviews) : Qualifies(reviews[i])
  /\ Returned => \A i \in 1..Len(result.value) : Qualifies(result.value[i])

\* C3 witness: a list is being returned that came from a container holding a
\* node without text and a node without rating next to an accepted one.
C3_Witness ==
  /\ pc = "closePage"
  /\ Returned
  /\ Len(result.value) > 0
  /\ \E i \in 1..Len(dom) : ExtractText(dom[i]).len = 0
  /\ \E i \in 1..Len(dom) : ExtractRating(dom[i]) = 0

\* C4: every record of the returned list has a rating in 1..5.
C4_RatingsInRange ==
  Returned => \A i \in 1..Len(result.value) : result.value[i].rating \in 1..5

\* C5: inside the scroll loop no two records of the accumulator share an
\* identifier; a step never replaces, removes or reorders an accepted record;
\* and a record added by a pass is the first qualifying candidate of that
\* pass with its identifier.
C5_UniqueIds ==
  InLoop => Cardinality({reviews[i].id : i \in 1..Len(reviews)}) = Len(reviews)

C5_FirstSeenStep ==
  LET c == ExtractCandidates(dom, now) IN
  /\ Len(reviews') >= Len(reviews)
  /\ SubSeq(reviews', 1, Len(reviews)) = reviews
  /\ \A i \in (Len(reviews) + 1)..Len(reviews') :
       \E k \in 1..Len(c) :
         /\ c[k] = reviews'[i]
         /\ Qualifies(c[k])
         /\ \A j \in 1..(k - 1) : Qualifies(c[j]) => c[j].id # c[k].id

C5_FirstSeenWins == [](C5_UniqueIds) /\ [][C5_FirstSeenStep]_vars

\* C5 witness: two nodes with one identifier and different fields were in the
\* container, in one pass or in two, and one record came of them.
C5_Witness ==
  /\ pc = "scroll"
  /\ calls.extract = 2
  /\ \E i, j \in 1..Len(dom) : i < j /\ dom[i] = nA2 /\ dom[j] = nA
  /\ \E i \in 1..Len(reviews) :
       reviews[i].id = AttrId(1) /\ reviews[i].text = tAwful

\* C6: a scroll attempt that reads back the offset of the attempt before it
\* (0 before the first) ends the loop there: the call is set to return the
\* accumulator as it stands, and from then on no extraction and no scroll is
\* issued and the list to return does not change.
C6_StallStep ==
  (pc = "scroll" /\ result'.kind # "throw" /\ scrollTop' = scrollTop) =>
    /\ result' = Return(reviews)
    /\ reviews' = reviews
    /\ pc' = "closePage"

C6_AfterReturn ==
  Returned =>
    /\ calls'.extract = calls.extract
    /\ calls'.scroll = calls.scroll
    /\ result' = result

C6_StallEndsLoop == [][C6_StallStep /\ C6_AfterReturn]_vars

\* C6 witness: the second scroll attempt read back the non-zero offset of
\* the first, and the call has returned the accumulated records.
C6_Witness ==
  /\ pc = "done"
  /\ Returned
  /\ calls.scroll = 2
  /\ calls.extract = 2
  /\ 0 < Len(result.value)
  /\ Len(result.value) < MAX_REVIEWS

\* no panel locator reports a match / no container selector validates
NoPanelMatch(v) == \A i \in 1..Len(v) : ~(v[i].ok /\ v[i].n > 0)
NoValidContainer(v) == \A i \in 1..Len(v) : ~Validates(v[i])

\* C7: when no panel locator matches the call fails with the panel error,
\* when no container selector resolves and validates it fails with the
\* container error, the two errors differ, and an error once raised is the
\* one the call ends with.
C7_Step ==
  /\ (pc = "openPanel" /\ NoPanelMatch(view)) =>
       (result'.kind = "throw" /\ result'.err = ERR_PANEL)
  /\ (pc = "resolve" /\ NoValidContainer(view)) =>
       (result'.kind = "throw" /\ result'.err = ERR_CONTAINER)
  /\ result.kind = "throw" => result' = result
  /\ ERR_PANEL # ERR_CONTAINER

C7_DistinctFatalErrors == [][C7_Step]_vars

\* C7 witness: the panel opened, no container validated, and the call has
\* failed with the container error.
C7_Witness ==
  /\ pc = "done"
  /\ calls.openPanel = 1
  /\ calls.resolve = 1
  /\ result.kind = "throw"
  /\ result.err = ERR_CONTAINER

\* a well-formed review node: an identifier, a rating label from 1 to 5
\* stars, a text of acceptable length
WellFormed(n) ==
  /\ n.attr = "value"
  /\ n.unit = "star"
  /\ n.hasNum
  /\ n.tenths \in {10, 20, 30, 40, 50}
  /\ \E i \in 1..Len(n.desc) :
       n.desc[i].kind = "plain" /\ n.desc[i].len > 20 /\ n.desc[i].len < 2000

StaticWellFormedPage ==
  /\ calls.settle = 0
  /\ scrollTop = 0
  /\ Len(dom) < MAX_REVIEWS
  /\ \A i \in 1..Len(dom) : WellFormed(dom[i])
  /\ \A i, j \in 1..Len(dom) : i # j => dom[i].rid # dom[j].rid

InvalidUrl(u) == ~u.given \/ ~u.parses \/ ~u.hostGoogle \/ ~u.pathMaps

\* C9: with a missing, unparsable or misshapen url the call never issues a
\* launch, creates no browser, context or page, and ends with the
\* invalid-url error.
C9_InvalidUrlFailsFast ==
  InvalidUrl(url) =>
    /\ pc \in {"start", "done"}
    /\ calls.launch = 0
    /\ res.browser = "none" /\ res.context = "none" /\ res.page = "none"
    /\ pc = "done" => result = Throw(ERR_INVALID_URL, "validate")

\* C9 witness: a url on a google host whose path is not a maps path was
\* rejected.
C9_Witness ==
  /\ pc = "done"
  /\ url.given /\ url.parses /\ url.hostGoogle /\ ~url.pathMaps
  /\ result.kind = "throw"

\* C10: a teardown step, whether its close resolves or rejects, leaves the
\* completion of the call as it is and is followed by the next teardown
\* step.
C10_Step ==
  /\ pc = "closePage" => (result' = result /\ pc' = "closeContext")
  /\ pc = "closeContext" => (result' = result /\ pc' = "closeBrowser")
  /\ pc = "closeBrowser" => (result' = result /\ pc' = "done")

C10_TeardownSwallowed == [][C10_Step]_vars

\* C10 witness: every close was rejected and the call has returned a
\* non-empty list.
C10_Witness ==
  /\ pc = "done"
  /\ res.page = "closeFailed"
  /\ res.context = "closeFailed"
  /\ res.browser = "closeFailed"
  /\ Returned
  /\ Len(result.value) > 0

\* C12: a best-effort stage (dismissInterstitals with its counts, click and
\* settle wait, and either screenshot) leaves the completion of the call as
\* it is, whatever fails in it, and hands over to the stage that follows.
C12_Step ==
  /\ pc = "dismiss" => (result' = result /\ pc' = "screenshot1")
  /\ pc = "screenshot1" =>
       (result' = result /\ pc' = "openPanel" /\ view' \in PanelViews)
  /\ pc = "screenshot2" =>
       (result' = result /\ pc' = "resolve" /\ view' \in ContainerViews)

C12_BestEffortNeverFails == [][C12_Step]_vars

\* C12 witness: the click on an interstitial button, the settle wait after
\* it and the first screenshot were all rejected, and the call is about to
\* open the reviews panel, not failed.
C12_Witness ==
  /\ pc = "openPanel"
  /\ result = Pending
  /\ \E k \in 1..NumButtons :
       stageOps = Probes(k) \o <<Click(k, FALSE), Wait(FALSE), Shot(FALSE)>>

\* C13: the url handed to page.goto has the parameters of the input url
\* followed by hl=en when the input has no hl parameter, and is the input
\* url itself, untouched, when the input has an hl parameter of any value.
C13_TargetUrl ==
  navigation # NoNavigation =>
    LET q == navigation.input
        t == navigation.targetUrl
        hasHl == \E i \in 1..Len(q.params) : q.params[i].k = "hl"
    IN /\ hasHl => t = q
       /\ ~hasHl => t.params = q.params \o <<Param("hl", "en")>>

\* C13 witness: the input url had one parameter, not hl, and the page was
\* navigated to the url with hl=en after it.
C13_Witness ==
  /\ pc = "dismiss"
  /\ navigation # NoNavigation
  /\ navigation.input.params = <<Param("q", "x")>>
  /\ navigation.targetUrl.params = <<Param("q", "x"), Param("hl", "en")>>

\* the operations of the stages, apart from the teardown
StageOperations ==
  {"launch", "newContext", "newPage", "goto", "dismiss", "screenshot",
   "openPanel", "resolve", "count", "extract", "scroll", "settle"}
TeardownPositions == {"closePage", "closeContext", "closeBrowser", "done"}

\* C15: no stage is entered twice in one call (two screenshots, one at each
\* of the two places); and once the call has failed, no stage operation is
\* issued any more, control is in the teardown, and the error stays the
\* completion of the call.
C15_Once ==
  /\ \A op \in {"launch", "newContext", "newPage", "goto", "dismiss",
                 "openPanel", "resolve", "count", "closePage",
                 "closeContext", "closeBrowser"} : calls[op] <= 1
  /\ calls.screenshot <= 2

C15_Step ==
  /\ result'.kind = "throw" => pc' \in TeardownPositions
  /\ result.kind = "throw" =>
       /\ result' = result
       /\ \A op \in StageOperations : calls'[op] = calls[op]

C15_NoRetryFailFast == [](C15_Once) /\ [][C15_Step]_vars

\* C15 witness: the navigation failed, was not repeated, nothing but the
\* three closes followed, and the call ended with the navigation error.
C15_Witness ==
  /\ pc = "done"
  /\ result = Throw(ERR_PLAYWRIGHT, "goto")
  /\ calls.goto = 1
  /\ calls.dismiss = 0
  /\ calls.closePage = 1 /\ calls.closeContext = 1 /\ calls.closeBrowser = 1

\* the i-th locator of a view reports at least one match
Matches(v, i) == v[i].ok /\ v[i].n > 0

\* C17: when openReviewsPanel succeeds it has probed the locators 1..k in
\* list order, k being the first that matches, then clicked the first match
\* of locator k and waited, and issued nothing else; no call clicks twice.
C17_Step ==
  pc = "openPanel" =>
    LET ops == stageOps' IN
    /\ Cardinality({a \in 1..Len(ops) : ops[a].op = "click"}) <= 1
    /\ result'.kind # "throw" =>
         \E k \in 1..NumPanelLocators :
           /\ Matches(view, k)
           /\ \A j \in 1..(k - 1) : ~Matches(view, j)
           /\ Len(ops) = k + 2
           /\ \A i \in 1..k : ops[i] = Count(i)
           /\ ops[k + 1] = Click(k, TRUE)
           /\ ops[k + 2] = Wait(TRUE)

C17_FirstMatchClicked == [][C17_Step]_vars

\* C17 witness: the second locator was the first to match; it was clicked
\* after two probes and the panel stage returned.
C17_Witness ==
  /\ pc = "screenshot2"
  /\ result = Pending
  /\ stageOps = <<Count(1), Count(2), Click(2, TRUE), Wait(TRUE)>>

\* C18: the selector the container resolver accepts is one whose probe found
\* a visible element and a review marker inside that same element.
C18_Step ==
  (pc = "resolve" /\ containerSelector' # 0) =>
    view[containerSelector'] = "ok"

C18_SameElementValidated == [][C18_Step]_vars

\* C19: a probe that times out, finds nothing, throws in the validation or
\* finds no marker moves the resolver on to the next selector; the call
\* fails with the container error exactly when no selector validates, and
\* then neither the initial count nor the scroll loop is ever entered.
C19_Step ==
  pc = "resolve" =>
    /\ (result'.kind = "throw") <=>
         (\A i \in 1..NumContainerSelectors :
            view[i] \in {"timeout", "null", "evalError", "noMarker"})
    /\ result'.kind = "throw" =>
         (result'.err = ERR_CONTAINER /\ pc' \in TeardownPositions)
    /\ result'.kind # "throw" =>
         /\ pc' = "count"
         /\ \A j \in 1..(containerSelector' - 1) :
              view[j] \in {"timeout", "null", "evalError", "noMarker"}

C19_NoLoop ==
  (result.kind = "throw" /\ result.err = ERR_CONTAINER) =>
    (calls.count = 0 /\ calls.extract = 0 /\ calls.scroll = 0)

C19_ProbeFailuresSkipped == [](C19_NoLoop) /\ [][C19_Step]_vars

\* C19 witness: the first selector failed its probe, the second validated,
\* and the scroll loop has extracted records from its container.
C19_Witness ==
  /\ pc = "scroll"
  /\ containerSelector = 2
  /\ result = Pending
  /\ Len(reviews) > 0

\* C20: dismissInterstitals issues at most one click, on the first button
\* of the list that is present; after the click only the settle wait
\* follows, no later button is probed; and with no button present it issues
\* no click and no wait.
C20_Step ==
  pc = "dismiss" =>
    LET ops == stageOps'
        present(i) == Matches(view, i)
    IN /\ \A a, b \in 1..Len(ops) :
            (ops[a].op = "click" /\ ops[b].op = "click") => a = b
       /\ \A a \in 1..Len(ops) :
            ops[a].op = "click" =>
              /\ present(ops[a].i)
              /\ \A j \in 1..(ops[a].i - 1) : ~present(j)
              /\ \A b \in (a + 1)..Len(ops) : ops[b].op = "wait"
       /\ (\A i \in 1..NumButtons : ~present(i)) =>
            \A a \in 1..Len(ops) : ops[a].op = "count"
       /\ (\E i \in 1..NumButtons : present(i)) =>
            \E a \in 1..Len(ops) : ops[a].op = "click"

C20_AtMostOneClick == [][C20_Step]_vars

\* C20 witness: the third button was the first present one; it was clicked
\* after three probes, the settle wait followed and nothing else.
C20_Witness ==
  /\ pc = "screenshot1"
  /\ stageOps = <<Count(1), Count(2), Count(3), Click(3, TRUE), Wait(TRUE)>>

\* C11: the rating recovered from a node whose indicator label carries a
\* number is the integer nearest to that number, the upper one when the
\* number lies halfway; it is 0 when the node has no indicator or the label
\* has no number.
C11_RatingRounded ==
  rating # <<>> =>
    LET r == rating[1] IN
    IF node.unit \in {"star", "stelle"} /\ node.hasNum
    THEN 10 * r - 5 <= node.tenths /\ node.tenths < 10 * r + 5
    ELSE r = 0

\* C11 witness: a label with 4.5 gave the rating 5.
C11_Witness ==
  /\ rating = <<5>>
  /\ node.hasNum
  /\ node.tenths = 45

\* C14: the list classifySentiments returns pairs every input review with
\* one of the three sentiments, one entry per review, in input order.
C14_OnePerReview ==
  classify.outcome = "return" =>
    /\ Len(classify.results) = Len(classify.reviews)
    /\ \A i \in 1..Len(classify.reviews) :
         /\ classify.results[i].review = classify.reviews[i]
         /\ classify.results[i].sentiment \in Sentiments

\* C16: with two calls interleaved, every browser, context and page has
\* been operated on and closed by the call that created it and by no
\* other, the locals of a call refer to what that call created, and the
\* two calls never refer to the same browser, context or page.
C16_Isolated ==
  /\ \A h \in 1..Len(world) : world[h].users \subseteq {world[h].owner}
  /\ \A c \in Callers :
       /\ session[c].browser # 0 => world[session[c].browser].owner = c
       /\ session[c].context # 0 => world[session[c].context].owner = c
       /\ session[c].page # 0 => world[session[c].page].owner = c
  /\ \A c, d \in Callers :
       c # d =>
         /\ session[c].browser # 0 => session[c].browser # session[d].browser
         /\ session[c].context # 0 => session[c].context # session[d].context
         /\ session[c].page # 0 => session[c].page # session[d].page

\* C16 witness: the two calls launched one after the other before either
\* went on, both ran to the end, and six resources were created and closed.
C16_Witness ==
  /\ \A c \in Callers : session[c].pc = "done"
  /\ Len(world) = 6
  /\ world[1].owner = "a" /\ world[2].owner = "b"
  /\ \A h \in 1..Len(world) :
       world[h].state = "closed" /\ world[h].users = {world[h].owner}

\* C21: two passes of the extractor over one unchanged container subtree
\* return the same list of candidates, identifiers included, and the
\* subtree is what it was.
C21_SameCandidates ==
  Len(passes) = 2 => passes[1].candidates = passes[2].candidates

\* C22: the nodes of a pass are those of one strategy: the nodes with
\* data-review-id if there is one; else the list-item / review-class nodes
\* with indicator and long span if there is one; else the nodes with
\* indicator and more than 30 characters in all.
C22_OneStrategy ==
  \A p \in 1..Len(passes) :
    LET a == SelectSeq(snapshot, LAMBDA n : n.attr \in {"value", "empty"})
        b == SelectSeq(snapshot,
               LAMBDA n : /\ n.cls
                          /\ n.unit = "star"
                          /\ \E i \in 1..Len(n.desc) : n.desc[i].len > 20)
        c == SelectSeq(snapshot, LAMBDA n : n.unit = "star" /\ n.total > 30)
    IN /\ a # <<>> => passes[p].nodes = a
       /\ (a = <<>> /\ b # <<>>) => passes[p].nodes = b
       /\ (a = <<>> /\ b = <<>>) => passes[p].nodes = c
       /\ Len(passes[p].candidates) = Len(passes[p].nodes)

\* C22 witness: a subtree without data-review-id holding a class node with
\* indicator and long span and, after it, a node only strategy (c) would
\* take; the pass returned the first alone.
C22_Witness ==
  /\ Len(passes) = 1
  /\ Len(snapshot) = 2
  /\ snapshot[1].attr = "absent" /\ snapshot[2].attr = "absent"
  /\ snapshot[1].cls /\ ~snapshot[2].cls
  /\ snapshot[2].unit = "star" /\ snapshot[2].total > 30
  /\ passes[1].nodes = <<snapshot[1]>>

\* the descendants of n that may be the text
Eligible(n) ==
  {j \in 1..Len(n.desc) :
     /\ n.desc[j].len > 20
     /\ n.desc[j].len < 2000
     /\ n.desc[j].kind = "plain"}

\* C23: the text of a candidate is the longest eligible descendant string,
\* the earliest of the longest; without an eligible one it is the direct
\* text when that has more than 20 characters, and empty otherwise.
C23_TextRecovered ==
  \A p \in 1..Len(passes) :
    \A i \in 1..Len(passes[p].nodes) :
      LET n == passes[p].nodes[i]
          text == passes[p].candidates[i].text
      IN IF Eligible(n) # {}
         THEN \E j \in Eligible(n) :
                /\ text = n.desc[j]
                /\ \A k \in Eligible(n) :
                     /\ n.desc[k].len <= n.desc[j].len
                     /\ k < j => n.desc[k].len < n.desc[j].len
         ELSE IF n.direct.len > 20 THEN text = n.direct
         ELSE text = EmptyStr

\* C23 witness: two descendants of the same greatest length, the first of
\* them became the text.
C23_Witness ==
  /\ Len(passes) = 1
  /\ Len(snapshot) = 1
  /\ snapshot[1].desc = <<tFine, tGreat>>
  /\ passes[1].candidates[1].text = tFine

\* the awaits of the try block in program order, and the closes after it
StageOrder ==
  <<"launch", "newContext", "newPage", "goto", "dismiss", "screenshot1",
    "openPanel", "screenshot2", "resolve", "count", "extract", "scroll",
    "settle">>
TeardownOrder == <<"closePage", "closeContext", "closeBrowser", "done">>
Position(order, p) == CHOOSE i \in 1..Len(order) : order[i] = p
OpAt(p) ==
  IF p \in {"screenshot1", "screenshot2"} THEN "screenshot" ELSE p

\* C24: the operations of a call are issued one at a time in the order
\* launch, context, page, navigation, dismissal, panel, container, loop;
\* each needs the one before it to have been issued; once a close has been
\* issued only closes follow, page before context before browser.
C24_Prefix ==
  /\ \A i \in 2..Len(StageOrder) :
       (StageOrder[i] # "screenshot2" /\ StageOrder[i - 1] # "screenshot2")
         => (calls[OpAt(StageOrder[i])] > 0
               => calls[OpAt(StageOrder[i - 1])] > 0)
  /\ calls.screenshot = 2 => calls.openPanel > 0
  /\ calls.resolve > 0 => calls.screenshot = 2
  /\ \A op \in {"closePage", "closeContext", "closeBrowser"} :
       calls[op] > 0 => pc \in TeardownPositions
  /\ calls.closePage > 0 => calls.newPage > 0
  /\ calls.closeContext > 0 => (calls.closePage > 0 \/ res.page = "none")
  /\ calls.closeBrowser > 0 => calls.closeContext > 0

C24_Step ==
  /\ \A op \in Ops :
       calls'[op] # calls[op] => (op = OpAt(pc) /\ calls'[op] = calls[op] + 1)
  /\ (pc \in StageOperations \cup {"screenshot1", "screenshot2"}
      /\ pc' \notin TeardownPositions) =>
       \/ Position(StageOrder, pc') = Position(StageOrder, pc) + 1
       \/ pc = "settle" /\ pc' = "extract"
  /\ pc \in TeardownPositions =>
       /\ pc' \in TeardownPositions
       /\ Position(TeardownOrder, pc') > Position(TeardownOrder, pc)

C24_StagesInOrder == [](C24_Prefix) /\ [][C24_Step]_vars

\* C24 witness: a call that went through every stage, made a second loop
\* iteration, returned, and closed page, context and browser.
C24_Witness ==
  /\ pc = "done"
  /\ Returned
  /\ calls.settle = 1
  /\ calls.extract = 2
  /\ calls.closePage = 1 /\ calls.closeContext = 1 /\ calls.closeBrowser = 1

\* C25: in the loop an extraction (with its insertions) is followed by a
\* scroll only if the accumulator is then below MAX_REVIEWS, and by the
\* return of the accumulator otherwise; a scroll is followed by the settle
\* wait only if it changed the offset, which is then remembered; the settle
\* wait alone leads to a further extraction.
C25_Step ==
  /\ pc = "extract" =>
       /\ pc' \in {"scroll"} \cup TeardownPositions
       /\ pc' = "scroll" => Len(reviews') < MAX_REVIEWS
       /\ (result'.kind # "throw" /\ Len(reviews') >= MAX_REVIEWS) =>
            (pc' \in TeardownPositions /\ result' = Return(reviews'))
  /\ pc = "scroll" =>
       /\ pc' \in {"settle"} \cup TeardownPositions
       /\ reviews' = reviews
       /\ pc' = "settle" =>
            /\ scrollTop' # scrollTop
            /\ scrollTop' # lastHeight
            /\ lastHeight' = scrollTop'
  /\ pc = "settle" =>
       /\ pc' \in {"extract"} \cup TeardownPositions
       /\ reviews' = reviews
  /\ pc' = "scroll" => pc = "extract"
  /\ pc' = "settle" => pc = "scroll"
  /\ pc' = "extract" => pc \in {"count", "settle"}

C25_LoopOrder == [][C25_Step]_vars

\* C25 witness: a second iteration is about to start, after a scroll that
\* moved the list from offset 0 and a settle wait.
C25_Witness ==
  /\ pc = "extract"
  /\ calls.extract = 1 /\ calls.scroll = 1 /\ calls.settle = 1
  /\ scrollTop # 0
  /\ lastHeight = scrollTop
  /\ Len(reviews) < MAX_REVIEWS

\* C26: on a list whose offsets never decrease and never exceed MaxOffset,
\* the loop makes at most MaxOffset + 1 iterations and the call then ends,
\* with or without records.
C26_Bound ==
  /\ calls.extract <= MaxOffset + 1
  /\ calls.scroll <= MaxOffset + 1
  /\ calls.settle <= MaxOffset

C26_Terminates == [](C26_Bound) /\ <>(pc = "done")

\* C26 witness: the call returned an empty list after the most iterations
\* such a list allows.
C26_Witness ==
  /\ pc = "done"
  /\ Returned
  /\ result.value = <<>>
  /\ calls.scroll = MaxOffset + 1
  /\ calls.settle = MaxOffset

\* C27: the accumulator never holds two records of one node: not more
\* records than the container has nodes, and not two records whose
\* synthesized identifiers name the same position.
C27_OnePerNode ==
  InLoop =>
    /\ Len(reviews) <= Len(dom)
    /\ \A i, j \in 1..Len(reviews) :
         (/\ i # j
          /\ reviews[i].id.src = "synth"
          /\ reviews[j].id.src = "synth") =>
           reviews[i].id.idx # reviews[j].id.idx

\* the records of the nodes of the tree that carry data-review-id
MarkedRecords(tree, t) ==
  LET marked == SelectSeq(tree, LAMBDA n : n.attr # "absent") IN
  [i \in 1..Len(marked) |-> ExtractRecord(marked[i], i - 1, t)]

\* C28: the container that passed validation holds a node with
\* data-review-id, so every pass takes the nodes of strategy (a) and no
\* others: what a pass inserts are the records of the marked nodes.
C28_Marked ==
  InLoop =>
    /\ Strategy1(dom) # <<>>
    /\ ReviewNodes(dom) = Strategy1(dom)

C28_Step ==
  (pc = "extract" /\ result'.kind # "throw") =>
    reviews' = InsertAll(reviews, MarkedRecords(dom, now))

C28_OnlyStrategyA == [](C28_Marked) /\ [][C28_Step]_vars

\* C28 witness: the first pass over a validated container that has, before
\* its marked node, a node the fallback strategies would take; only the
\* marked node gave a record.
C28_Witness ==
  /\ pc = "scroll"
  /\ calls.settle = 0
  /\ dom = <<nPlain, nA>>
  /\ reviews = <<ExtractRecord(nA, 0, 0)>>

\* a summary has been returned
Summarized == analysis.pc = "done" /\ analysis.outcome = "return"

\* C29: in a returned summary positive + negative + neutral = totalReviews,
\* whatever the classification service answered.
C29_SentimentsAddUp ==
  Summarized =>
    analysis.summary.sentimentCounts["positive"]
      + analysis.summary.sentimentCounts["negative"]
      + analysis.summary.sentimentCounts["neutral"]
      = analysis.summary.totalReviews

\* C30: in a returned summary the histogram has, for each of 1..5, the
\* number of fetched reviews with that rating, and the five numbers add up
\* to totalReviews.
C30_HistogramAddsUp ==
  Summarized =>
    LET hist == analysis.summary.ratingsHistogram IN
    /\ \A k \in 1..5 :
         hist[k] = CountOf(analysis.reviews, LAMBDA r : r = k)
    /\ hist[1] + hist[2] + hist[3] + hist[4] + hist[5]
         = analysis.summary.totalReviews

====
